---- MODULE Spec2Model ----
(***************************************************************************)
(* bytebase/rollout-action: the rollout progression controller (run,       *)
(* waitRollout, getStageStatus, runStageTasks), the version preflight and  *)
(* the cancellation handler (cancelRollout, SIGINT/SIGTERM listeners) of   *)
(* the target-stage action, and the run-to-completion controller of        *)
(* src/main.ts.  Strings are TLA+ strings; the platform's answers are      *)
(* drawn from small sets when a response arrives.                          *)
(*                                                                         *)
(*   Spec        the whole action: run, the preflight and the signal        *)
(*               listener interleaved, the platform's answers drawn from    *)
(*               representative mixes.                                      *)
(*   SpecPoll    run without a signal, every task list up to MaxTasks.      *)
(*   SpecCancel  the signal listener, every listing up to MaxTaskRuns.      *)
(*   SpecMain    the controller of src/main.ts, every task list up to       *)
(*               MaxTasks.                                                  *)
(*   SpecLive    run against a platform that executes the tasks it is       *)
(*               asked to run, under fairness (liveness).                   *)
(*   SpecOwn     run and the signal listener against a platform whose       *)
(*               tasks only this controller triggers.                       *)
(***************************************************************************)
EXTENDS Integers, Sequences, FiniteSets, TLC

VARIABLES
    targetStage,      \* input 'target-stage'
    planName,         \* input 'plan'
    pc,               \* where run/waitRollout is suspended
    i,                \* waitRollout's cursor
    rolloutPreview,   \* rolloutPreview.stages, as the sequence of environments
    rolloutName,      \* waitRollout's rolloutName parameter
    stage,            \* the stage r.stages[i] last classified
    failure,          \* the message given to core.setFailed ("" when not called)
    req,              \* the controller's request in flight
    status,           \* its { done, failedTasks }
    lastResp,         \* the answer to the last batch-run request
    createLog,        \* targets of the non-validate-only createRollout requests
    issued,           \* the controller's requests so far: <<kind, cursor>>
    createdRollout,   \* the module-level createdRollout ("" is undefined)
    verPc,            \* the un-awaited assertBytebaseVersion promise
    sigPc,            \* where the signal listener is suspended
    listed,           \* listTaskRunsResponse.result.taskRuns
    handlerCalls,     \* the requests the signal listener has issued
    srvStages,        \* the platform: how many stages are materialized
    srvTasks,         \* the platform: the task statuses of each materialized stage
                      \* (kept by the specifications that model the platform's tasks)
    doneLog,          \* the cursors whose stage was classified done, in order (history)
    alive,            \* the process has not exited
    exitCode          \* process.exitCode (0 when never set)

vars == <<targetStage, planName, pc, i, rolloutPreview, rolloutName, stage,
          status, failure, req, lastResp, createLog, issued, createdRollout, verPc,
          sigPc, listed, handlerCalls, srvStages, srvTasks, doneLog, alive,
          exitCode>>

inputVars == <<targetStage, planName>>
ctrlVars == <<pc, i, rolloutPreview, rolloutName, stage, status, failure, req,
              lastResp, createLog, issued, createdRollout, doneLog>>
sigVars == <<sigPc, listed, handlerCalls>>

-----------------------------------------------------------------------------
(* Bounds of the model.                                                    *)

\* the most tasks the platform reports in one stage
MaxTasks == 3

\* the most task-runs the platform lists to the cancellation handler
MaxTaskRuns == 2

\* the most tasks a stage is created with where the platform executes them
MaxLiveTasks == 2

-----------------------------------------------------------------------------
(* Strings.                                                                *)

RECURSIVE Join(_, _)
\* Array.prototype.join
Join(seq, sep) ==
    IF Len(seq) = 0 THEN ""
    ELSE IF Len(seq) = 1 THEN seq[1]
    ELSE seq[1] \o sep \o Join(Tail(seq), sep)

\* s has sub at position k (1-based)
HasAt(s, sub, k) ==
    /\ k >= 1
    /\ k + Len(sub) - 1 <= Len(s)
    /\ SubSeq(s, k, k + Len(sub) - 1) = sub

\* String.prototype.includes
Includes(s, sub) == \E k \in 1..(Len(s) + 1) : HasAt(s, sub, k)

\* the positions at or after from where sub occurs in s
Occurrences(s, sub, from) == {k \in from..(Len(s) + 1) : HasAt(s, sub, k)}

Min(S) == CHOOSE x \in S : \A y \in S : x <= y
Max(S) == CHOOSE x \in S : \A y \in S : x >= y

IsDigit(ch) == ch \in {"0", "1", "2", "3", "4", "5", "6", "7", "8", "9"}

RECURSIVE DigitsEnd(_, _)
\* the last position of the run of digits of s that starts at k (k - 1 if none)
DigitsEnd(s, k) ==
    IF k <= Len(s) /\ IsDigit(SubSeq(s, k, k)) THEN DigitsEnd(s, k + 1) ELSE k - 1

-----------------------------------------------------------------------------
(* The inputs and the platform's vocabulary.                               *)

TargetStages == {"", "test", "staging", "prod", "dev"}

PlanNames == {"projects/p1/plans/101", "plans/101"}

Environments == <<"test", "staging", "prod">>

\* the stage lists a preview may carry: the plan's first n environments
Previews == {SubSeq(Environments, 1, n) : n \in 0..Len(Environments)}

RolloutNames == {"projects/p1/rollouts/7", "projects/p1/rollouts/8"}

TaskStatus ==
    {"NOT_STARTED", "PENDING", "RUNNING", "DONE", "SKIPPED", "FAILED", "CANCELED"}

TaskRunStatus == {"PENDING", "RUNNING", "DONE", "FAILED", "CANCELED"}

StageName(k) == "projects/p1/rollouts/7/stages/" \o ToString(k + 1)

TaskName(k, j) == StageName(k) \o "/tasks/" \o ToString(j)

\* every sequence of at most n task statuses
StatusSeqs(n) == UNION {[1..m -> TaskStatus] : m \in 0..n}

\* the task lists the platform reports in SpecPoll and SpecMain
TaskLists == StatusSeqs(MaxTasks)

\* the mixes of task statuses the platform reports in Spec
StatusMixes ==
    {<<>>, <<"DONE">>, <<"SKIPPED", "DONE">>, <<"NOT_STARTED">>,
     <<"NOT_STARTED", "NOT_STARTED">>, <<"DONE", "NOT_STARTED">>, <<"PENDING">>,
     <<"RUNNING", "SKIPPED">>, <<"CANCELED">>, <<"FAILED">>,
     <<"FAILED", "RUNNING">>, <<"NOT_STARTED", "FAILED">>}

\* the stage at index k of a fetched or created rollout, its tasks in statuses sts
Stage(k, sts) ==
    [name |-> StageName(k),
     environment |-> rolloutPreview[k + 1],
     tasks |-> [j \in 1..Len(sts) |-> [name |-> TaskName(k, j), status |-> sts[j]]]]

NoStage == [name |-> "", environment |-> "", tasks |-> <<>>]

NoStatus == [done |-> FALSE, failedTasks |-> <<>>]

minimumBytebaseVersion == <<3, 5, 0>>

Versions == {<<3, 5, 0>>, <<3, 4, 9>>, <<3, 10, 1>>, <<2, 22, 3>>}

\* semver's gte on major.minor.patch
gte(a, b) ==
    \/ a[1] > b[1]
    \/ a[1] = b[1] /\ a[2] > b[2]
    \/ a[1] = b[1] /\ a[2] = b[2] /\ a[3] >= b[3]

ConflictText ==
    "cannot create pending task runs because there are pending/running/done task runs"

\* what a failed batch-run says
ServerMessages ==
    {"rpc error: " \o ConflictText \o " (stage)",
     "cannot create pending task runs",
     "permission denied"}

BatchRunResponses ==
    {[ok |-> TRUE, message |-> ""]} \cup
    {[ok |-> FALSE, message |-> m] : m \in ServerMessages}

NoResp == [ok |-> TRUE, message |-> "none"]

\* the stage segments of the task-run names the platform lists ("-": no stage id)
StageSegments == {"1", "12", "-"}

TaskRun(seg, j, st) ==
    [name |-> "projects/p1/rollouts/7/stages/" \o seg \o "/tasks/" \o ToString(j)
                  \o "/taskRuns/1",
     status |-> st]

\* every listing of at most n task-runs
Listings(n) ==
    UNION {{[j \in 1..m |-> TaskRun(segs[j], j, sts[j])] :
                segs \in [1..m -> StageSegments], sts \in [1..m -> TaskRunStatus]} :
           m \in 0..n}

\* the listings the platform answers with in SpecCancel
TaskRunListings == Listings(MaxTaskRuns)

\* the listings the platform answers with in Spec
ListingMixes ==
    {<<>>,
     <<TaskRun("1", 1, "RUNNING")>>,
     <<TaskRun("1", 1, "PENDING"), TaskRun("1", 2, "RUNNING")>>,
     <<TaskRun("1", 1, "DONE"), TaskRun("12", 2, "RUNNING")>>,
     <<TaskRun("1", 1, "RUNNING"), TaskRun("12", 2, "PENDING")>>,
     <<TaskRun("-", 1, "RUNNING")>>,
     <<TaskRun("1", 1, "FAILED"), TaskRun("1", 2, "CANCELED")>>}

\* a request of the controller or of the signal listener
Request(kind, rollout, validateOnly, target, stageName, names) ==
    [kind |-> kind, rollout |-> rollout, validateOnly |-> validateOnly,
     target |-> target, stage |-> stageName, names |-> names]

NoReq == Request("none", "", FALSE, "", "", <<>>)

-----------------------------------------------------------------------------
(* Pure functions of the action.                                           *)

RECURSIVE FilterReversed(_, _)
\* Filter with the kept entries in reverse order
FilterReversed(tasks, keep) ==
    IF Len(tasks) = 0 THEN <<>>
    ELSE IF tasks[1].status \in keep
         THEN FilterReversed(Tail(tasks), keep) \o <<tasks[1]>>
         ELSE FilterReversed(Tail(tasks), keep)

RECURSIVE Filter(_, _)
\* Array.prototype.filter by status
Filter(tasks, keep) ==
    IF Len(tasks) = 0 THEN <<>>
    ELSE IF tasks[1].status \in keep
         THEN <<tasks[1]>> \o Filter(Tail(tasks), keep)
         ELSE Filter(Tail(tasks), keep)

\* Array.prototype.map(e => e.name)
Names(tasks) == [k \in 1..Len(tasks) |-> tasks[k].name]

\* getStageStatus taking a RUNNING task for a finished one
getStageStatusDoneWhileRunning(st) ==
    [done |-> \A k \in 1..Len(st.tasks) :
                  st.tasks[k].status \in {"DONE", "SKIPPED", "RUNNING"},
     failedTasks |-> Filter(st.tasks, {"FAILED"})]

getStageStatus(st) ==
    [done |-> \A k \in 1..Len(st.tasks) : st.tasks[k].status \in {"DONE", "SKIPPED"},
     failedTasks |-> Filter(st.tasks, {"FAILED"})]

\* getStageStatus of src/main.ts
getStageStatusMain(st) ==
    [done |-> \A k \in 1..Len(st.tasks) : st.tasks[k].status = "DONE",
     failedTasks |-> Filter(st.tasks, {"FAILED"})]

\* RunTaskNames with the PENDING tasks too
RunTaskNamesAndPending(st) == Names(Filter(st.tasks, {"NOT_STARTED", "PENDING"}))

\* runStageTasks: the names of the request
RunTaskNames(st) == Names(Filter(st.tasks, {"NOT_STARTED"}))

\* name.match(/(?<project>projects\/.*)\/<collection>\/.*/); "" when no match
ProjectOf(name, collection) ==
    LET sep == "/" \o collection \o "/"
        starts == {p \in Occurrences(name, "projects/", 1) :
                      Occurrences(name, sep, p + Len("projects/")) # {}}
    IN IF starts = {} THEN ""
       ELSE LET p == Min(starts)
                q == Max(Occurrences(name, sep, p + Len("projects/")))
            IN SubSeq(name, p, q - 1)

\* TargetNotFoundMessage without the previewed stages after the first
TargetNotFoundMessageFirstOnly(target, envs) ==
    "target stage " \o target \o " not found\navailable stages:\n"
        \o (IF Len(envs) = 0 THEN "" ELSE envs[1])

TargetNotFoundMessage(target, envs) ==
    "target stage " \o target \o " not found\navailable stages:\n" \o Join(envs, "\n")

\* TaskFailedMessage naming the first failed task alone
TaskFailedMessageFirstOnly(failedTasks) ==
    "task " \o (IF Len(failedTasks) = 0 THEN "" ELSE failedTasks[1].name) \o " failed"

TaskFailedMessage(failedTasks) ==
    "task " \o Join(Names(failedTasks), ",") \o " failed"

\* RetryableError on the start of the conflict text alone
RetryableErrorPrefix(message) == Includes(message, "cannot create pending task runs")

RetryableError(message) == Includes(message, ConflictText)

\* taskRun.name.match(/(?<stageId>stages\/\d+)/); "" when no match
StageIdOf(name) ==
    LET starts == {p \in Occurrences(name, "stages/", 1) :
                      DigitsEnd(name, p + Len("stages/")) >= p + Len("stages/")}
    IN IF starts = {} THEN ""
       ELSE SubSeq(name, Min(starts), DigitsEnd(name, Min(starts) + Len("stages/")))

\* ActiveTaskRuns without the PENDING task-runs
ActiveTaskRunsRunningOnly(listing) == Filter(listing, {"RUNNING"})

\* cancelRollout: the task-runs to cancel
ActiveTaskRuns(listing) == Filter(listing, {"PENDING", "RUNNING"})

RECURSIVE ExtractStageId(_, _)
\* cancelRollout's for loop: the stage id after the task-runs, "throw" when a
\* name has none
ExtractStageId(taskRuns, stageId) ==
    IF Len(taskRuns) = 0 THEN stageId
    ELSE IF StageIdOf(taskRuns[1].name) = "" THEN "throw"
    ELSE ExtractStageId(Tail(taskRuns), StageIdOf(taskRuns[1].name))

-----------------------------------------------------------------------------
(* The process.                                                            *)

Terminal == {"returned", "failed"}

\* node exits once run has settled and no request of the process is pending
AliveAfter(p, v, s) == ~(p \in Terminal /\ v # "inflight" /\ s \notin {"list", "cancel"})

Init ==
    /\ targetStage \in TargetStages
    /\ planName \in PlanNames
    /\ pc = "start"
    /\ i = 0
    /\ rolloutPreview = <<>>
    /\ rolloutName = ""
    /\ stage = NoStage
    /\ status = NoStatus
    /\ failure = ""
    /\ req = NoReq
    /\ lastResp = NoResp
    /\ createLog = <<>>
    /\ issued = {}
    /\ createdRollout = ""
    /\ verPc = "idle"
    /\ sigPc = "idle"
    /\ listed = <<>>
    /\ handlerCalls = <<>>
    /\ srvStages = 0
    /\ srvTasks = <<>>
    /\ doneLog = <<>>
    /\ alive = TRUE
    /\ exitCode = 0

-----------------------------------------------------------------------------
(* run and waitRollout.  Each step runs from one await to the next.        *)

\* the catch of run: core.setFailed(error.message)
Throw(message) ==
    /\ pc' = "failed"
    /\ failure' = message
    /\ req' = NoReq
    /\ UNCHANGED <<i, issued>>

\* send request r with the cursor at k and suspend at label at
Send(at, r, k) ==
    /\ pc' = at
    /\ req' = r
    /\ issued' = issued \cup {<<at, k>>}
    /\ i' = k
    /\ failure' = failure

\* waitRollout returns with the cursor at k and run resolves
Return(k) ==
    /\ pc' = "returned"
    /\ req' = NoReq
    /\ i' = k
    /\ UNCHANGED <<failure, issued>>

\* await sleep(5000)
Sleep ==
    /\ pc' = "sleep"
    /\ req' = NoReq
    /\ UNCHANGED <<i, failure, issued>>

\* LoopTop leaving the loop one stage early
LoopTopStopsEarly(k, name) ==
    IF k >= Len(rolloutPreview') - 1
    THEN Return(k)
    ELSE Send("getRollout", Request("getRollout", name, FALSE, "", "", <<>>), k)

\* the top of the while loop with the cursor at k: break, or getRollout
LoopTop(k, name) ==
    IF k >= Len(rolloutPreview')
    THEN Return(k)
    ELSE Send("getRollout", Request("getRollout", name, FALSE, "", "", <<>>), k)

\* what every step of run ends with: setFailed sets the exit code
Settle ==
    /\ exitCode' = IF pc' = "failed" THEN 1 ELSE exitCode
    /\ alive' = AliveAfter(pc', verPc', sigPc')

\* run up to the preview request; assertBytebaseVersion is called, not awaited
Run ==
    /\ alive /\ pc = "start"
    /\ IF targetStage = ""
       THEN Throw("target stage cannot be empty") /\ verPc' = verPc
       ELSE IF ProjectOf(planName, "plans") = ""
       THEN Throw("failed to extract project from plan " \o planName) /\ verPc' = verPc
       ELSE /\ verPc' = "inflight"
            /\ pc' = "createRolloutPreview"
            /\ req' = Request("createRollout", "", TRUE, "", "", <<>>)
            /\ issued' = issued \cup {<<"actuator", 0>>, <<"createRolloutPreview", 0>>}
            /\ UNCHANGED <<failure, i>>
    /\ UNCHANGED <<srvTasks, inputVars, doneLog, rolloutPreview, rolloutName, stage, status, lastResp,
                   createLog, createdRollout, sigVars, srvStages>>
    /\ Settle

\* the preview arrives; the target is looked up; the rollout is requested
PreviewResponse ==
    /\ alive /\ pc = "createRolloutPreview"
    /\ \/ /\ Throw("failed to create rollout")
          /\ UNCHANGED <<rolloutPreview, createLog>>
       \/ \E stages \in Previews :
             /\ rolloutPreview' = stages
             /\ IF ~(\E k \in 1..Len(stages) : stages[k] = targetStage)
                THEN /\ Throw(TargetNotFoundMessage(targetStage, stages))
                     /\ createLog' = createLog
                ELSE /\ Send("createRollout",
                             Request("createRollout", "", FALSE, "", "", <<>>), 0)
                     /\ createLog' = Append(createLog, "")
    /\ UNCHANGED <<srvTasks, inputVars, doneLog, rolloutName, stage, status, lastResp, createdRollout,
                   verPc, sigVars, srvStages>>
    /\ Settle

\* the rollout is created: its name is cached and waitRollout starts
CreateResponse ==
    /\ alive /\ pc = "createRollout"
    /\ rolloutPreview' = rolloutPreview
    /\ \/ /\ Throw("failed to create rollout")
          /\ UNCHANGED <<rolloutName, createdRollout>>
       \/ \E name \in RolloutNames :
             /\ createdRollout' = name
             /\ rolloutName' = name
             /\ LoopTop(0, name)
    /\ UNCHANGED <<srvTasks, inputVars, doneLog, stage, status, lastResp, createLog, verPc, sigVars,
                   srvStages>>
    /\ Settle

\* runStageTasks that runs nothing
runStageTasksRunsNothing(st) == Sleep

\* runStageTasks with the next fetch at once when there is nothing to run
runStageTasksSkipsSleep(st) ==
    IF Len(RunTaskNames(st)) = 0
    THEN LoopTop(i, rolloutName)
    ELSE Send("batchRun",
              Request("batchRun", "", FALSE, "", st.name, RunTaskNames(st)), i)

\* runStageTasks up to its request
runStageTasks(st) ==
    IF Len(RunTaskNames(st)) = 0
    THEN Sleep
    ELSE Send("batchRun",
              Request("batchRun", "", FALSE, "", st.name, RunTaskNames(st)), i)

\* Classify without the return at the target stage
ClassifyPastTarget(st) ==
    LET s == getStageStatus(st) IN
    /\ stage' = st
    /\ status' = s
    /\ doneLog' = IF s.done THEN Append(doneLog, i) ELSE doneLog
    /\ IF s.done
       THEN LoopTop(i + 1, rolloutName)
       ELSE IF Len(s.failedTasks) > 0
            THEN Throw(TaskFailedMessage(s.failedTasks))
            ELSE runStageTasks(st)

\* Classify matching the target against the name of the stage
ClassifyMatchesName(st) ==
    LET s == getStageStatus(st) IN
    /\ stage' = st
    /\ status' = s
    /\ doneLog' = IF s.done THEN Append(doneLog, i) ELSE doneLog
    /\ IF s.done
       THEN IF st.name = targetStage
            THEN Return(i)
            ELSE LoopTop(i + 1, rolloutName)
       ELSE IF Len(s.failedTasks) > 0
            THEN Throw(TaskFailedMessage(s.failedTasks))
            ELSE runStageTasks(st)

\* the loop body from the classification of the stage on
Classify(st) ==
    LET s == getStageStatus(st) IN
    /\ stage' = st
    /\ status' = s
    /\ doneLog' = IF s.done THEN Append(doneLog, i) ELSE doneLog
    /\ IF s.done
       THEN IF st.environment = targetStage
            THEN Return(i)
            ELSE LoopTop(i + 1, rolloutName)
       ELSE IF Len(s.failedTasks) > 0
            THEN Throw(TaskFailedMessage(s.failedTasks))
            ELSE runStageTasks(st)

\* GetRolloutResponse creating through the last previewed stage at once
GetRolloutResponseCreatesThroughLast(mixes) ==
    /\ alive /\ pc = "getRollout"
    /\ rolloutPreview' = rolloutPreview
    /\ \/ /\ Throw("failed to get rollout")
          /\ UNCHANGED <<stage, status, createLog, doneLog>>
       \/ /\ srvStages <= i
          /\ Send("createStage",
                  Request("createRollout", "", FALSE,
                          rolloutPreview[Len(rolloutPreview)], "", <<>>), i)
          /\ createLog' = Append(createLog, rolloutPreview[Len(rolloutPreview)])
          /\ UNCHANGED <<stage, status, doneLog>>
       \/ /\ srvStages > i
          /\ \E sts \in mixes : Classify(Stage(i, sts))
          /\ createLog' = createLog
    /\ UNCHANGED <<srvTasks, inputVars, rolloutName, lastResp, createdRollout, verPc,
                   sigVars, srvStages>>
    /\ Settle

\* getRollout answers: the stage is classified, or its creation is requested
GetRolloutResponse(mixes) ==
    /\ alive /\ pc = "getRollout"
    /\ rolloutPreview' = rolloutPreview
    /\ \/ /\ Throw("failed to get rollout")
          /\ UNCHANGED <<stage, status, createLog, doneLog>>
       \/ /\ srvStages <= i
          /\ Send("createStage",
                  Request("createRollout", "", FALSE, rolloutPreview[i + 1], "", <<>>), i)
          /\ createLog' = Append(createLog, rolloutPreview[i + 1])
          /\ UNCHANGED <<stage, status, doneLog>>
       \/ /\ srvStages > i
          /\ \E sts \in mixes : Classify(Stage(i, sts))
          /\ createLog' = createLog
    /\ UNCHANGED <<srvTasks, inputVars, rolloutName, lastResp, createdRollout, verPc,
                   sigVars, srvStages>>
    /\ Settle

\* CreateStageResponse caching the name of the rollout it is answered with
CreateStageResponseCachesName(mixes) ==
    /\ alive /\ pc = "createStage"
    /\ rolloutPreview' = rolloutPreview
    /\ \/ /\ Throw("failed to create rollout")
          /\ UNCHANGED <<stage, status, srvStages, createdRollout, doneLog>>
       \/ /\ srvStages' = i + 1
          /\ createdRollout' \in RolloutNames
          /\ \E sts \in mixes : Classify(Stage(i, sts))
    /\ UNCHANGED <<srvTasks, inputVars, rolloutName, lastResp, createLog, verPc, sigVars>>
    /\ Settle

\* the stage is created: the platform materializes it and the loop goes on
CreateStageResponse(mixes) ==
    /\ alive /\ pc = "createStage"
    /\ rolloutPreview' = rolloutPreview
    /\ \/ /\ Throw("failed to create rollout")
          /\ UNCHANGED <<stage, status, srvStages, doneLog>>
       \/ /\ srvStages' = i + 1
          /\ \E sts \in mixes : Classify(Stage(i, sts))
    /\ UNCHANGED <<srvTasks, inputVars, rolloutName, lastResp, createLog, createdRollout,
                   verPc, sigVars>>
    /\ Settle

\* the batch-run answers: success and the known conflict go on to the sleep
BatchRunResponse ==
    /\ alive /\ pc = "batchRun"
    /\ \E resp \in BatchRunResponses :
          /\ lastResp' = resp
          /\ IF resp.ok \/ RetryableError(resp.message)
             THEN Sleep
             ELSE Throw(resp.message)
    /\ UNCHANGED <<srvTasks, inputVars, doneLog, rolloutPreview, rolloutName, stage, status, createLog,
                   createdRollout, verPc, sigVars, srvStages>>
    /\ Settle

\* SleepDone moving the cursor on
SleepDoneAdvances ==
    /\ alive /\ pc = "sleep"
    /\ rolloutPreview' = rolloutPreview
    /\ stage' = NoStage
    /\ status' = NoStatus
    /\ lastResp' = NoResp
    /\ LoopTop(i + 1, rolloutName)
    /\ UNCHANGED <<srvTasks, inputVars, doneLog, rolloutName, createLog, createdRollout, verPc,
                   sigVars, srvStages>>
    /\ Settle

\* sleep(5000) is over: the next iteration starts
SleepDone ==
    /\ alive /\ pc = "sleep"
    /\ rolloutPreview' = rolloutPreview
    /\ stage' = NoStage
    /\ status' = NoStatus
    /\ lastResp' = NoResp
    /\ LoopTop(i, rolloutName)
    /\ UNCHANGED <<srvTasks, inputVars, doneLog, rolloutName, createLog, createdRollout, verPc,
                   sigVars, srvStages>>
    /\ Settle

-----------------------------------------------------------------------------
(* assertBytebaseVersion: its promise is dropped by run.                   *)

\* a rejection nobody handles: node ends the process with code 1, or (older
\* runtimes) only warns and goes on
Unhandled(p, v, s) ==
    \/ alive' = FALSE /\ exitCode' = 1
    \/ alive' = AliveAfter(p, v, s) /\ exitCode' = exitCode

\* the actuator answers: the promise resolves, or rejects with nobody to catch it
\* ("unsupported": the version is below the minimum; "rejected": the request failed)
VersionResponse ==
    /\ alive /\ verPc = "inflight"
    /\ \/ \E v \in Versions :
             IF gte(v, minimumBytebaseVersion)
             THEN /\ verPc' = "ok"
                  /\ alive' = AliveAfter(pc, "ok", sigPc)
                  /\ exitCode' = exitCode
             ELSE /\ verPc' = "unsupported"
                  /\ Unhandled(pc, "unsupported", sigPc)
       \/ /\ verPc' = "rejected"
          /\ Unhandled(pc, "rejected", sigPc)
    /\ UNCHANGED <<srvTasks, inputVars, ctrlVars, sigVars, srvStages>>

-----------------------------------------------------------------------------
(* cancelRollout and the SIGINT/SIGTERM listeners.                         *)

\* process.exit(0)
Exit0 ==
    /\ sigPc' = "exited"
    /\ alive' = FALSE
    /\ exitCode' = 0

\* OnSignal without the check of createdRollout
OnSignalUnchecked ==
    /\ alive /\ sigPc = "idle"
    /\ sigPc' = "list"
    /\ handlerCalls' =
           Append(handlerCalls,
                  Request("listTaskRuns", createdRollout, FALSE, "", "", <<>>))
    /\ UNCHANGED <<alive, exitCode>>
    /\ UNCHANGED <<srvTasks, inputVars, ctrlVars, verPc, listed, srvStages>>

\* the listener up to cancelRollout's first await (one delivery: a second signal
\* while a listener runs is left out)
OnSignal ==
    /\ alive /\ sigPc = "idle"
    /\ IF createdRollout = ""
       THEN Exit0 /\ handlerCalls' = handlerCalls
       ELSE /\ sigPc' = "list"
            /\ handlerCalls' =
                   Append(handlerCalls,
                          Request("listTaskRuns", createdRollout, FALSE, "", "", <<>>))
            /\ UNCHANGED <<alive, exitCode>>
    /\ UNCHANGED <<srvTasks, inputVars, ctrlVars, verPc, listed, srvStages>>

SigInt == OnSignal

SigTerm == OnSignal

\* the listing answers: nothing to cancel, a throw, or the batch-cancel request
ListTaskRunsResponse(listings) ==
    /\ alive /\ sigPc = "list"
    /\ \/ /\ sigPc' = "rejected"
          /\ Unhandled(pc, verPc, "rejected")
          /\ UNCHANGED <<listed, handlerCalls>>
       \/ \E l \in listings :
             LET taskRuns == ActiveTaskRuns(l)
                 stageId == ExtractStageId(taskRuns, "")
             IN /\ listed' = l
                /\ IF Len(taskRuns) = 0
                   THEN Exit0 /\ handlerCalls' = handlerCalls
                   ELSE IF stageId \in {"throw", ""}
                   THEN /\ sigPc' = "rejected"
                        /\ Unhandled(pc, verPc, "rejected")
                        /\ handlerCalls' = handlerCalls
                   ELSE /\ sigPc' = "cancel"
                        /\ handlerCalls' =
                               Append(handlerCalls,
                                      Request("batchCancel", createdRollout, FALSE, "",
                                              stageId, Names(taskRuns)))
                        /\ UNCHANGED <<alive, exitCode>>
    /\ UNCHANGED <<srvTasks, inputVars, ctrlVars, verPc, srvStages>>

\* the batch-cancel answers or fails (a warning): the listener exits the process
BatchCancelResponse ==
    /\ alive /\ sigPc = "cancel"
    /\ Exit0
    /\ UNCHANGED <<srvTasks, inputVars, ctrlVars, verPc, listed, handlerCalls, srvStages>>

-----------------------------------------------------------------------------
(* The specifications of the target-stage action.                          *)

Next ==
    \/ Run
    \/ PreviewResponse
    \/ CreateResponse
    \/ GetRolloutResponse(StatusMixes)
    \/ CreateStageResponse(StatusMixes)
    \/ BatchRunResponse
    \/ SleepDone
    \/ VersionResponse
    \/ SigInt
    \/ SigTerm
    \/ ListTaskRunsResponse(ListingMixes)
    \/ BatchCancelResponse

Spec == Init /\ [][Next]_vars

\* run alone (no signal delivered, the preflight still pending), over every
\* task list up to MaxTasks
NextPoll ==
    \/ Run
    \/ PreviewResponse
    \/ CreateResponse
    \/ GetRolloutResponse(TaskLists)
    \/ CreateStageResponse(TaskLists)
    \/ BatchRunResponse
    \/ SleepDone

SpecPoll == Init /\ [][NextPoll]_vars

\* the process at the two points where a signal can find createdRollout: run
\* suspended on the creation of the rollout, and run asleep after a batch-run
\* (both are states of Spec)
InitCancel ==
    /\ targetStage = "test"
    /\ planName = "projects/p1/plans/101"
    /\ rolloutPreview = Environments
    /\ i = 0
    /\ failure = ""
    /\ verPc = "ok"
    /\ sigPc = "idle"
    /\ listed = <<>>
    /\ handlerCalls = <<>>
    /\ srvTasks = <<>>
    /\ doneLog = <<>>
    /\ alive = TRUE
    /\ exitCode = 0
    /\ \/ /\ pc = "createRollout"
          /\ req = Request("createRollout", "", FALSE, "", "", <<>>)
          /\ createLog = <<"">>
          /\ issued = {<<"actuator", 0>>, <<"createRolloutPreview", 0>>,
                       <<"createRollout", 0>>}
          /\ createdRollout = ""
          /\ rolloutName = ""
          /\ stage = NoStage
          /\ status = NoStatus
          /\ lastResp = NoResp
          /\ srvStages = 0
       \/ \E name \in RolloutNames :
             /\ pc = "sleep"
             /\ req = NoReq
             /\ createLog = <<"", "test">>
             /\ issued = {<<"actuator", 0>>, <<"createRolloutPreview", 0>>,
                          <<"createRollout", 0>>, <<"getRollout", 0>>,
                          <<"createStage", 0>>, <<"batchRun", 0>>}
             /\ createdRollout = name
             /\ rolloutName = name
             /\ stage = Stage(0, <<"NOT_STARTED">>)
             /\ status = getStageStatus(stage)
             /\ lastResp = [ok |-> TRUE, message |-> ""]
             /\ srvStages = 1

\* the signal listener alone, over every listing up to MaxTaskRuns
NextCancel ==
    \/ SigInt
    \/ SigTerm
    \/ ListTaskRunsResponse(TaskRunListings)
    \/ BatchCancelResponse

SpecCancel == InitCancel /\ [][NextCancel]_vars

-----------------------------------------------------------------------------
(* src/main.ts: the controller that takes a rollout and runs it to the end. *)

MainRollouts == {"projects/p1/rollouts/7", "rollouts/7"}

InitMain ==
    /\ targetStage = ""
    /\ planName = ""
    /\ rolloutName \in MainRollouts
    /\ pc = "start"
    /\ i = 0
    /\ rolloutPreview = <<>>
    /\ stage = NoStage
    /\ status = NoStatus
    /\ failure = ""
    /\ req = NoReq
    /\ lastResp = NoResp
    /\ createLog = <<>>
    /\ issued = {}
    /\ createdRollout = ""
    /\ verPc = "idle"
    /\ sigPc = "idle"
    /\ listed = <<>>
    /\ handlerCalls = <<>>
    /\ srvStages \in 0..Len(Environments)
    /\ srvTasks = <<>>
    /\ doneLog = <<>>
    /\ alive = TRUE
    /\ exitCode = 0

mainFrame == <<targetStage, rolloutName, createdRollout, verPc, sigVars>>

\* run up to its getRollout
MainRun ==
    /\ alive /\ pc = "start"
    /\ IF ProjectOf(rolloutName, "rollouts") = ""
       THEN Throw("failed to extract project from rollout " \o rolloutName)
       ELSE Send("getRolloutPlan",
                 Request("getRollout", rolloutName, FALSE, "", "", <<>>), 0)
    /\ UNCHANGED <<srvTasks, mainFrame, doneLog, planName, rolloutPreview, stage, status, lastResp,
                   createLog, srvStages>>
    /\ Settle

\* the rollout arrives: its plan is previewed
MainRolloutResponse ==
    /\ alive /\ pc = "getRolloutPlan"
    /\ \/ Throw("failed to get rollout") /\ planName' = planName
       \/ Throw("failed to get rollout.plan") /\ planName' = planName
       \/ /\ planName' = "projects/p1/plans/101"
          /\ Send("createRolloutPreview",
                  Request("createRollout", "", TRUE, "", "", <<>>), 0)
    /\ UNCHANGED <<srvTasks, mainFrame, doneLog, rolloutPreview, stage, status, lastResp, createLog,
                   srvStages>>
    /\ Settle

\* the preview arrives and waitRollout starts
MainPreviewResponse ==
    /\ alive /\ pc = "createRolloutPreview"
    /\ \/ Throw("failed to create release") /\ rolloutPreview' = rolloutPreview
       \/ \E stages \in Previews :
             /\ Len(stages) >= srvStages
             /\ rolloutPreview' = stages
             /\ LoopTop(0, rolloutName)
    /\ UNCHANGED <<srvTasks, mainFrame, doneLog, planName, stage, status, lastResp, createLog,
                   srvStages>>
    /\ Settle

\* run of the first version of src/main.ts (no preview, no stage creation) up
\* to the first getRollout of its waitRollout
Main1Run ==
    /\ alive /\ pc = "start"
    /\ Send("getRolloutStages",
            Request("getRollout", rolloutName, FALSE, "", "", <<>>), 0)
    /\ UNCHANGED <<srvTasks, mainFrame, doneLog, planName, rolloutPreview, stage, status,
                   lastResp, createLog, srvStages>>
    /\ Settle

\* the first fetch answers: stageCount is the number of stages it lists (kept
\* in rolloutPreview), and the loop starts.  Every stage below stageCount is
\* materialized, so the loop of this version is the loop below without its
\* stage creation.
Main1RolloutResponse ==
    /\ alive /\ pc = "getRolloutStages"
    /\ \/ Throw("failed to get rollout") /\ rolloutPreview' = rolloutPreview
       \/ /\ rolloutPreview' = SubSeq(Environments, 1, srvStages)
          /\ LoopTop(0, rolloutName)
    /\ UNCHANGED <<srvTasks, mainFrame, doneLog, planName, stage, status, lastResp,
                   createLog, srvStages>>
    /\ Settle

\* runStageTasks of src/main.ts up to its request
MainRunStageTasks(st) == runStageTasks(st)

\* the loop body from the classification of the stage on
MainClassify(st) ==
    LET s == getStageStatusMain(st) IN
    /\ stage' = st
    /\ status' = s
    /\ doneLog' = IF s.done THEN Append(doneLog, i) ELSE doneLog
    /\ IF s.done
       THEN LoopTop(i + 1, rolloutName)
       ELSE IF Len(s.failedTasks) > 0
            THEN Throw(TaskFailedMessage(s.failedTasks))
            ELSE MainRunStageTasks(st)

MainGetRolloutResponse ==
    /\ alive /\ pc = "getRollout"
    /\ rolloutPreview' = rolloutPreview
    /\ \/ /\ Throw("failed to get rollout")
          /\ UNCHANGED <<stage, status, createLog, doneLog>>
       \/ /\ srvStages <= i
          /\ Send("createStage",
                  Request("createRollout", "", FALSE, rolloutPreview[i + 1], "", <<>>), i)
          /\ createLog' = Append(createLog, rolloutPreview[i + 1])
          /\ UNCHANGED <<stage, status, doneLog>>
       \/ /\ srvStages > i
          /\ \E sts \in TaskLists : MainClassify(Stage(i, sts))
          /\ createLog' = createLog
    /\ UNCHANGED <<srvTasks, mainFrame, planName, lastResp, srvStages>>
    /\ Settle

MainCreateStageResponse ==
    /\ alive /\ pc = "createStage"
    /\ rolloutPreview' = rolloutPreview
    /\ \/ /\ Throw("failed to create release")
          /\ UNCHANGED <<stage, status, srvStages, doneLog>>
       \/ /\ srvStages' = i + 1
          /\ \E sts \in TaskLists : MainClassify(Stage(i, sts))
    /\ UNCHANGED <<srvTasks, mainFrame, planName, lastResp, createLog>>
    /\ Settle

\* the batch-run answers: every failure is thrown
MainBatchRunResponse ==
    /\ alive /\ pc = "batchRun"
    /\ \E resp \in BatchRunResponses :
          /\ lastResp' = resp
          /\ IF resp.ok
             THEN Sleep
             ELSE Throw("failed to run tasks, " \o resp.message)
    /\ UNCHANGED <<srvTasks, mainFrame, doneLog, planName, rolloutPreview, stage, status, createLog,
                   srvStages>>
    /\ Settle

MainSleepDone ==
    /\ alive /\ pc = "sleep"
    /\ rolloutPreview' = rolloutPreview
    /\ stage' = NoStage
    /\ status' = NoStatus
    /\ lastResp' = NoResp
    /\ LoopTop(i, rolloutName)
    /\ UNCHANGED <<srvTasks, mainFrame, doneLog, planName, createLog, srvStages>>
    /\ Settle

NextMain ==
    \/ Main1Run
    \/ Main1RolloutResponse
    \/ MainRun
    \/ MainRolloutResponse
    \/ MainPreviewResponse
    \/ MainGetRolloutResponse
    \/ MainCreateStageResponse
    \/ MainBatchRunResponse
    \/ MainSleepDone

SpecMain == InitMain /\ [][NextMain]_vars

-----------------------------------------------------------------------------
(* The action against a platform that answers every request, creates the   *)
(* stages with tasks it then executes once they are run, and fails none.   *)

\* the statuses of the tasks of that platform
LiveStatus == {"NOT_STARTED", "PENDING", "RUNNING", "DONE", "SKIPPED"}

\* the task lists a stage is created with
LiveTaskLists == UNION {[1..m -> LiveStatus] : m \in 0..MaxLiveTasks}

\* a target that the preview will hold and a plan of a project
InitLive ==
    /\ Init
    /\ targetStage \in {Environments[k] : k \in 1..Len(Environments)}
    /\ planName = "projects/p1/plans/101"

platformFrame == <<inputVars, ctrlVars, verPc, sigVars, srvStages, alive, exitCode>>

\* the preview holds the target
LivePreviewResponse == PreviewResponse /\ pc' # "failed"

LiveCreateResponse == CreateResponse /\ pc' # "failed"

\* the fetch answers with the tasks as the platform has them
LiveGetRolloutResponse ==
    /\ GetRolloutResponse(IF srvStages > i THEN {srvTasks[i + 1]} ELSE {})
    /\ pc' # "failed"

\* the platform handles the creation request: the stage gets its tasks
PlatformCreatesStage ==
    /\ pc = "createStage"
    /\ Len(srvTasks) = i
    /\ \E sts \in LiveTaskLists : srvTasks' = Append(srvTasks, sts)
    /\ UNCHANGED platformFrame

\* the creation answers with the stage as the platform has it
LiveCreateStageResponse ==
    /\ Len(srvTasks) = i + 1
    /\ CreateStageResponse({srvTasks[i + 1]})
    /\ pc' # "failed"

\* task j of the stage at the cursor is named by the batch-run in flight
NamedInBatchRun(j) == \E k \in 1..Len(req.names) : req.names[k] = TaskName(i, j)

\* the platform handles the batch-run request: the named tasks get a task-run
PlatformRunsTasks ==
    /\ pc = "batchRun"
    /\ \E j \in 1..Len(srvTasks[i + 1]) :
          NamedInBatchRun(j) /\ srvTasks[i + 1][j] = "NOT_STARTED"
    /\ srvTasks' =
           [srvTasks EXCEPT ![i + 1] =
               [j \in 1..Len(@) |-> IF NamedInBatchRun(j) THEN "PENDING" ELSE @[j]]]
    /\ UNCHANGED platformFrame

\* the batch-run answers once the platform has handled it
LiveBatchRunResponse ==
    /\ pc = "batchRun"
    /\ \A j \in 1..Len(srvTasks[i + 1]) :
          NamedInBatchRun(j) => srvTasks[i + 1][j] # "NOT_STARTED"
    /\ BatchRunResponse
    /\ lastResp'.ok

\* the platform executes a task-run: PENDING, RUNNING, DONE
PlatformProgress ==
    /\ \E k \in 1..Len(srvTasks) : \E j \in 1..Len(srvTasks[k]) :
          /\ srvTasks[k][j] \in {"PENDING", "RUNNING"}
          /\ srvTasks' =
                 [srvTasks EXCEPT ![k][j] = IF @ = "PENDING" THEN "RUNNING" ELSE "DONE"]
    /\ UNCHANGED platformFrame

\* the version is supported
LiveVersionResponse == VersionResponse /\ verPc' = "ok"

\* the steps of run
LiveController ==
    \/ Run
    \/ LivePreviewResponse
    \/ LiveCreateResponse
    \/ LiveGetRolloutResponse
    \/ LiveCreateStageResponse
    \/ LiveBatchRunResponse
    \/ SleepDone

NextLive ==
    \/ LiveController
    \/ LiveVersionResponse
    \/ PlatformCreatesStage
    \/ PlatformRunsTasks
    \/ PlatformProgress

\* every request is answered and the sleep ends; the platform handles the
\* requests it received and executes the task-runs it has
LiveFairness ==
    /\ WF_vars(LiveController)
    /\ WF_vars(LiveVersionResponse)
    /\ WF_vars(PlatformCreatesStage)
    /\ WF_vars(PlatformRunsTasks)
    /\ WF_vars(PlatformProgress)

SpecLive == InitLive /\ [][NextLive]_vars /\ LiveFairness

-----------------------------------------------------------------------------
(* The whole action (run and the signal listener) against a platform whose *)
(* tasks are triggered by this controller alone: requests may fail, a      *)
(* task-run may fail, and the listing is what the platform holds.          *)

\* the task lists a stage is created with when nothing else triggers its tasks
OwnTaskLists == UNION {[1..m -> {"NOT_STARTED", "SKIPPED"}] : m \in 0..MaxLiveTasks}

\* the platform handles the creation request: the stage gets its tasks
OwnPlatformCreatesStage ==
    /\ pc = "createStage"
    /\ Len(srvTasks) = i
    /\ \E sts \in OwnTaskLists : srvTasks' = Append(srvTasks, sts)
    /\ UNCHANGED platformFrame

\* the fetch answers with the tasks as the platform has them, or fails
OwnGetRolloutResponse ==
    GetRolloutResponse(IF srvStages > i THEN {srvTasks[i + 1]} ELSE {})

\* the creation answers with the stage as the platform has it, or fails
OwnCreateStageResponse ==
    /\ Len(srvTasks) = i + 1
    /\ CreateStageResponse({srvTasks[i + 1]})

\* the batch-run answers: with success only once the platform has handled it
OwnBatchRunResponse ==
    /\ pc = "batchRun"
    /\ BatchRunResponse
    /\ lastResp'.ok =>
          \A j \in 1..Len(srvTasks[i + 1]) :
              NamedInBatchRun(j) => srvTasks[i + 1][j] # "NOT_STARTED"

\* a task-run of the platform fails
PlatformFailsTask ==
    /\ \E k \in 1..Len(srvTasks) : \E j \in 1..Len(srvTasks[k]) :
          /\ srvTasks[k][j] = "RUNNING"
          /\ srvTasks' = [srvTasks EXCEPT ![k][j] = "FAILED"]
    /\ UNCHANGED platformFrame

\* the task-runs of the stage at index k - 1: one for each task that was run
StageTaskRuns(k) ==
    SelectSeq([j \in 1..Len(srvTasks[k]) |-> TaskRun(ToString(k), j, srvTasks[k][j])],
              LAMBDA t : t.status \in TaskRunStatus)

RECURSIVE PlatformTaskRuns(_)
\* the task-runs of the stages from index k - 1 on, in stage order
PlatformTaskRuns(k) ==
    IF k > Len(srvTasks) THEN <<>> ELSE StageTaskRuns(k) \o PlatformTaskRuns(k + 1)

\* the listing answers with the task-runs the platform holds, or fails
OwnListTaskRunsResponse == ListTaskRunsResponse({PlatformTaskRuns(1)})

NextOwn ==
    \/ Run
    \/ PreviewResponse
    \/ CreateResponse
    \/ OwnGetRolloutResponse
    \/ OwnCreateStageResponse
    \/ OwnBatchRunResponse
    \/ SleepDone
    \/ SigInt
    \/ SigTerm
    \/ OwnListTaskRunsResponse
    \/ BatchCancelResponse
    \/ OwnPlatformCreatesStage
    \/ PlatformRunsTasks
    \/ PlatformProgress
    \/ PlatformFailsTask

SpecOwn == InitLive /\ [][NextOwn]_vars

-----------------------------------------------------------------------------
(* What the claims are stated with.                                        *)

\* the positions of seq whose status is in keep
Positions(seq, keep) == {j \in 1..Len(seq) : seq[j].status \in keep}

\* the k-th smallest member of the set of positions P
Kth(P, k) == CHOOSE f \in P : Cardinality({g \in P : g < f}) = k - 1

\* result is the subsequence of seq of the entries whose status is in keep
IsSelection(result, seq, keep) ==
    /\ Len(result) = Cardinality(Positions(seq, keep))
    /\ \A k \in 1..Len(result) : result[k] = seq[Kth(Positions(seq, keep), k)]

AllDoneOrSkipped(st) ==
    \A k \in 1..Len(st.tasks) : st.tasks[k].status \in {"DONE", "SKIPPED"}

RECURSIVE ListedFrom(_, _, _)
\* message names every member of envs, in order, at or after position from
ListedFrom(message, envs, from) ==
    \/ Len(envs) = 0
    \/ \E p \in Occurrences(message, envs[1], from) :
          ListedFrom(message, Tail(envs), p + Len(envs[1]))

-----------------------------------------------------------------------------
(* C1 *)

\* the preview is [test, staging, prod] and the target is staging
C1_Scenario == rolloutPreview = Environments /\ targetStage = "staging"

\* C1: with the preview [A, B, C] and the target B, run returns only with B (the
\* stage at index 1) classified with every task DONE or SKIPPED; whenever B is
\* classified so it has returned in that very step; the cursor never passes B,
\* and no request (creation, batch-run, fetch) is ever issued with the cursor
\* at C, nor any stage creation aimed at C's environment.
C1_ReturnsAtTarget ==
    C1_Scenario =>
        /\ i <= 1
        /\ pc = "returned" =>
              /\ i = 1
              /\ stage.name = StageName(1)
              /\ stage.environment = "staging"
              /\ AllDoneOrSkipped(stage)
              /\ status.done
              /\ req = NoReq
              /\ failure = ""
        /\ (stage.name = StageName(1) /\ AllDoneOrSkipped(stage)) => pc = "returned"
        /\ \A r \in issued : r[2] <= 1
        /\ \A k \in 1..Len(createLog) : createLog[k] # "prod"

\* B was started by a batch-run and later found done: run has returned
C1_Witness ==
    /\ C1_Scenario
    /\ pc = "returned"
    /\ <<"batchRun", 1>> \in issued
    /\ Len(stage.tasks) = 3
    /\ stage.tasks[1].status = "SKIPPED"

-----------------------------------------------------------------------------
(* C2 *)

C2_TargetMissing == \A k \in 1..Len(rolloutPreview) : rolloutPreview[k] # targetStage

\* the preview request was answered with a preview
C2_PreviewAnswered ==
    /\ <<"createRolloutPreview", 0>> \in issued
    /\ pc # "createRolloutPreview"
    /\ failure # "failed to create rollout"

\* C2: while the target is the environment of no previewed stage, nothing but
\* the preflight and the preview has been requested (no rollout or stage
\* creation, no fetch, no batch-run), and once the preview is in, run has failed
\* with a message that names every previewed environment in preview order.
C2_TargetNotFound ==
    C2_TargetMissing =>
        /\ createLog = <<>>
        /\ issued \subseteq {<<"actuator", 0>>, <<"createRolloutPreview", 0>>}
        /\ createdRollout = ""
        /\ srvStages = 0
        /\ C2_PreviewAnswered =>
              /\ pc = "failed"
              /\ Includes(failure, "target stage " \o targetStage \o " not found")
              /\ ListedFrom(failure, rolloutPreview,
                            Len("target stage " \o targetStage \o " not found") + 1)

C2_Witness ==
    /\ C2_TargetMissing
    /\ C2_PreviewAnswered
    /\ targetStage = "dev"
    /\ rolloutPreview = Environments
    /\ pc = "failed"

-----------------------------------------------------------------------------
(* C3 *)

\* C3: whenever a stage has been classified, done is true exactly when every
\* task of it is DONE or SKIPPED (a stage with no task is done).
C3_DoneIffAllDoneOrSkipped ==
    stage # NoStage => (status.done <=> AllDoneOrSkipped(stage))

-----------------------------------------------------------------------------
(* C4 *)

\* C4: whenever a stage has been classified, failedTasks is the subsequence of
\* its tasks whose status is FAILED: all of them, once each, in stage order.
C4_FailedTasksInOrder ==
    stage # NoStage => IsSelection(status.failedTasks, stage.tasks, {"FAILED"})

\* two FAILED tasks around one that is not
C4_Witness ==
    /\ Len(stage.tasks) = 3
    /\ stage.tasks[1].status = "FAILED"
    /\ stage.tasks[2].status = "RUNNING"
    /\ stage.tasks[3].status = "FAILED"
    /\ Len(status.failedTasks) = 2
    /\ pc = "failed"

-----------------------------------------------------------------------------
(* C5 *)

\* the last batch-run failed with a message that holds the conflict text
C5_Conflict ==
    lastResp # NoResp /\ ~lastResp.ok /\ Includes(lastResp.message, ConflictText)

\* the last batch-run failed with another message
C5_OtherFailure ==
    lastResp # NoResp /\ ~lastResp.ok /\ ~Includes(lastResp.message, ConflictText)

\* C5: a batch-run failure whose message holds the conflict text leaves run
\* unfailed and asleep with the cursor where it was, and the sleep ends in the
\* next fetch at that cursor; a failure with any other message ends run with
\* that message, after which no request is issued.
C5_ConflictIsSwallowed ==
    /\ [](C5_Conflict =>
            /\ pc = "sleep"
            /\ failure = ""
            /\ stage.name = StageName(i))
    /\ [](C5_OtherFailure =>
            /\ pc = "failed"
            /\ failure = lastResp.message
            /\ req = NoReq)
    /\ [][/\ pc = "batchRun" => i' = i
          /\ (pc = "sleep" /\ pc' # "sleep") =>
                /\ pc' = "getRollout"
                /\ i' = i
                /\ req'.kind = "getRollout"
          /\ pc = "failed" => (pc' = "failed" /\ issued' = issued /\ req' = NoReq)]_vars

C5_Witness == C5_Conflict /\ pc = "sleep" /\ i = 1

-----------------------------------------------------------------------------
(* C6 *)

\* runStageTasks has just been called on stage (not done, nothing FAILED)
C6_Called ==
    /\ stage # NoStage
    /\ ~status.done
    /\ Len(status.failedTasks) = 0
    /\ lastResp = NoResp

\* C6: when runStageTasks is called, a batch-run is in flight exactly if the
\* stage has a NOT_STARTED task, and it names the NOT_STARTED tasks, all of
\* them, in stage order, and no task in another status; with no NOT_STARTED
\* task nothing is requested.
C6_BatchRunNamesNotStarted ==
    LET P == Positions(stage.tasks, {"NOT_STARTED"}) IN
    /\ C6_Called =>
          IF P # {}
          THEN /\ pc = "batchRun"
               /\ req.kind = "batchRun"
               /\ req.stage = stage.name
               /\ Len(req.names) = Cardinality(P)
               /\ \A k \in 1..Len(req.names) : req.names[k] = stage.tasks[Kth(P, k)].name
          ELSE /\ pc = "sleep"
               /\ req = NoReq
    /\ req.kind = "batchRun" =>
          \A j \in 1..Len(stage.tasks) :
              stage.tasks[j].status # "NOT_STARTED" =>
                  \A k \in 1..Len(req.names) : req.names[k] # stage.tasks[j].name

C6_Witness ==
    /\ C6_Called
    /\ pc = "batchRun"
    /\ Len(stage.tasks) = 3
    /\ stage.tasks[1].status = "NOT_STARTED"
    /\ stage.tasks[2].status = "PENDING"
    /\ stage.tasks[3].status = "NOT_STARTED"
    /\ Len(req.names) = 2

-----------------------------------------------------------------------------
(* C7 *)

\* C7: as long as createdRollout is unset the signal listener has issued no
\* request, and a listener that ran has exited the process with code 0.
C7_NoRolloutNoCalls ==
    createdRollout = "" =>
        /\ handlerCalls = <<>>
        /\ sigPc # "idle" => (sigPc = "exited" /\ ~alive /\ exitCode = 0)

\* the signal arrived while the creation of the rollout was in flight
C7_Witness ==
    /\ createdRollout = ""
    /\ sigPc = "exited"
    /\ pc = "createRollout"
    /\ handlerCalls = <<>>

-----------------------------------------------------------------------------
(* C8 *)

C8_Active == Positions(listed, {"PENDING", "RUNNING"})

\* every PENDING/RUNNING task-run listed is under the stage with segment seg
C8_AllUnder(seg) ==
    \A j \in C8_Active : Includes(listed[j].name, "/stages/" \o seg \o "/")

C8_BatchCancels == SelectSeq(handlerCalls, LAMBDA r : r.kind = "batchCancel")

\* C8: when the PENDING/RUNNING task-runs listed are all under one stage, the
\* listener has issued exactly one batch-cancel, to that stage of the created
\* rollout, naming the PENDING/RUNNING task-runs, all of them, in listing order,
\* and no other; with no PENDING/RUNNING task-run it issues no batch-cancel.
C8_OneBatchCancel ==
    /\ C8_Active = {} => C8_BatchCancels = <<>>
    /\ Len(C8_BatchCancels) <= 1
    /\ \A seg \in StageSegments \ {"-"} :
          (C8_Active # {} /\ C8_AllUnder(seg)) =>
              /\ sigPc \in {"cancel", "exited"}
              /\ Len(C8_BatchCancels) = 1
              /\ C8_BatchCancels[1].rollout = createdRollout
              /\ createdRollout # ""
              /\ C8_BatchCancels[1].stage = "stages/" \o seg
              /\ Len(C8_BatchCancels[1].names) = Cardinality(C8_Active)
              /\ \A k \in 1..Cardinality(C8_Active) :
                    C8_BatchCancels[1].names[k] = listed[Kth(C8_Active, k)].name

\* two task-runs under the same stage
C8_Witness ==
    /\ sigPc = "cancel"
    /\ listed = <<TaskRun("12", 1, "PENDING"), TaskRun("12", 2, "RUNNING")>>
    /\ Len(handlerCalls) = 2

-----------------------------------------------------------------------------
(* C9 *)

\* C9: a signal listener that is no longer running has exited the process with
\* code 0, whatever failed on its way.
C9_ListenerAlwaysExits0 ==
    sigPc \notin {"idle", "list", "cancel"} =>
        (sigPc = "exited" /\ ~alive /\ exitCode = 0)

-----------------------------------------------------------------------------
(* C10 *)

\* C10: createdRollout is written once, by the answer to the one createRollout
\* request that is neither a preview nor aimed at a stage, and never changes;
\* every fetch of the loop and every request of the signal listener carries it.
C10_CreatedRolloutWriteOnce ==
    /\ [](createdRollout # "" =>
            (createdRollout \in RolloutNames /\ rolloutName = createdRollout))
    /\ [](Cardinality({k \in 1..Len(createLog) : createLog[k] = ""}) <= 1)
    /\ [](req.kind = "getRollout" =>
            (createdRollout # "" /\ req.rollout = createdRollout))
    /\ [](\A k \in 1..Len(handlerCalls) :
            (createdRollout # "" /\ handlerCalls[k].rollout = createdRollout))
    /\ [][/\ createdRollout # "" => createdRollout' = createdRollout
          /\ (createdRollout = "" /\ createdRollout' # "") =>
                /\ pc = "createRollout"
                /\ req.kind = "createRollout"
                /\ ~req.validateOnly
                /\ req.target = ""]_vars

\* a stage was created after the rollout, and the listener addressed the rollout
C10_Witness ==
    /\ createdRollout = "projects/p1/rollouts/8"
    /\ Len(createLog) = 3
    /\ req.kind = "getRollout"
    /\ Len(handlerCalls) = 2

-----------------------------------------------------------------------------
(* C11 *)

\* the stage just classified is not done and has a FAILED task
C11_FailedStage ==
    /\ stage # NoStage
    /\ ~AllDoneOrSkipped(stage)
    /\ Positions(stage.tasks, {"FAILED"}) # {}

\* the names of the FAILED tasks of the classified stage, in stage order
C11_FailedNames ==
    LET P == Positions(stage.tasks, {"FAILED"})
    IN [k \in 1..Cardinality(P) |-> stage.tasks[Kth(P, k)].name]

\* C11: a stage classified not done with a FAILED task ends run at once in the
\* failed outcome (exit code 1) with the error "task <names> failed" naming the
\* FAILED tasks and no other; the step that classifies it issues no request (no
\* batch-run, no fetch), does not sleep and leaves the cursor where it was, and
\* nothing is requested afterwards.
C11_FailedTaskIsFatal ==
    /\ [](C11_FailedStage =>
            /\ pc = "failed"
            /\ failure = "task " \o Join(C11_FailedNames, ",") \o " failed"
            /\ req = NoReq
            /\ exitCode = 1
            /\ stage.name = StageName(i))
    /\ [][/\ (~C11_FailedStage /\ C11_FailedStage') =>
                /\ pc \in {"getRollout", "createStage"}
                /\ pc' = "failed"
                /\ issued' = issued
                /\ i' = i
          /\ pc = "failed" =>
                (pc' = "failed" /\ issued' = issued /\ i' = i /\ failure' = failure)]_vars

\* two FAILED tasks beside one that was never started, at the second stage
C11_Witness ==
    /\ C11_FailedStage
    /\ pc = "failed"
    /\ i = 1
    /\ Len(stage.tasks) = 3
    /\ stage.tasks[1].status = "FAILED"
    /\ stage.tasks[2].status = "NOT_STARTED"
    /\ stage.tasks[3].status = "FAILED"
    /\ <<"batchRun", 1>> \notin issued

-----------------------------------------------------------------------------
(* C12 *)

\* C12: once the platform has reported a version below 3.5.0, run has failed
\* with the unsupported-version error as its outcome, and neither the creation
\* of the rollout or of a stage nor any request of the loop has been issued.
C12_VersionGuardsStartup ==
    verPc = "unsupported" =>
        /\ pc = "failed"
        /\ failure # ""
        /\ createLog = <<>>
        /\ createdRollout = ""
        /\ issued \subseteq {<<"actuator", 0>>, <<"createRolloutPreview", 0>>}

-----------------------------------------------------------------------------
(* C13 *)

\* the request in flight creates a stage (not a preview, aimed at a target)
C13_StageCreation(r) ==
    r.kind = "createRollout" /\ ~r.validateOnly /\ r.target # ""

\* C13: a stage creation is requested only in the step that receives a fetch
\* listing at most i stages (i the cursor), it is aimed at the environment of
\* the previewed stage i and leaves the cursor alone; the stage creations so
\* far are aimed at the previewed stages in order, one each, none of them past
\* the cursor, and the platform never holds a stage past the cursor.
C13_LazyStageCreation ==
    /\ [](/\ Len(createLog) <= i + 2
          /\ \A k \in 2..Len(createLog) : createLog[k] = rolloutPreview[k - 1]
          /\ \A r \in issued : r[1] = "createStage" => r[2] <= i
          /\ srvStages <= i + 1
          /\ C13_StageCreation(req) =>
                (pc = "createStage" /\ req.target = rolloutPreview[i + 1]))
    /\ [][(~C13_StageCreation(req) /\ C13_StageCreation(req')) =>
              /\ pc = "getRollout"
              /\ srvStages <= i
              /\ i' = i
              /\ req'.target = rolloutPreview[i + 1]
              /\ createLog' = Append(createLog, rolloutPreview[i + 1])]_vars

\* the third stage is being created, after the first two were found done
C13_Witness ==
    /\ pc = "createStage"
    /\ i = 2
    /\ createLog = <<"", "test", "staging", "prod">>
    /\ srvStages = 2

-----------------------------------------------------------------------------
(* C14 *)

\* waitRollout is running its loop
C14_InLoop == pc \in {"getRollout", "createStage", "batchRun", "sleep"}

\* C14: while the loop runs the cursor is below stageCount and not past the
\* previewed stage of the target, and a run that has returned (success) did so
\* at the target: the cursor is below stageCount, on the stage whose
\* environment is the target, and that stage was classified done; the loop is
\* left only to the return or to a failure.
C14_NoFallThrough ==
    /\ [](C14_InLoop =>
            /\ i < Len(rolloutPreview)
            /\ \E t \in (i + 1)..Len(rolloutPreview) : rolloutPreview[t] = targetStage)
    /\ [](pc = "returned" =>
            /\ i < Len(rolloutPreview)
            /\ rolloutPreview[i + 1] = targetStage
            /\ stage.name = StageName(i)
            /\ stage.environment = targetStage
            /\ status.done
            /\ failure = ""
            /\ exitCode = 0)
    /\ [][(C14_InLoop /\ ~C14_InLoop') => pc' \in {"returned", "failed"}]_vars

\* success at the last previewed stage
C14_Witness ==
    /\ pc = "returned"
    /\ targetStage = "prod"
    /\ i = Len(rolloutPreview) - 1
    /\ i = 2
    /\ <<"batchRun", 2>> \in issued

-----------------------------------------------------------------------------
(* C15 *)

\* the stage at cursor k was classified done in some poll so far
C15_ClassifiedDone(k) == \E n \in 1..Len(doneLog) : doneLog[n] = k

\* C15: the cursor starts at 0 and moves only by +1, in the very step that
\* classifies the stage at the cursor done; the stages classified done so far
\* are 0, 1, 2, ... in order with none left out; and a stage creation or a
\* batch-run is issued for the stage at the cursor alone, when every stage
\* below it was classified done in an earlier step.
C15_NoSkipNoReorder ==
    /\ i = 0
    /\ [](/\ doneLog = [n \in 1..Len(doneLog) |-> n - 1]
          /\ Len(doneLog) \in {i, i + 1}
          /\ Len(doneLog) = i + 1 => pc = "returned")
    /\ [][/\ i' # i =>
                /\ i' = i + 1
                /\ pc \in {"getRollout", "createStage"}
                /\ stage'.name = StageName(i)
                /\ status'.done
                /\ doneLog' = Append(doneLog, i)
          /\ (req' # req /\ req'.kind = "batchRun") =>
                /\ i' = i
                /\ req'.stage = StageName(i)
                /\ \A k \in 0..(i - 1) : C15_ClassifiedDone(k)
          /\ (req' # req /\ req'.kind = "createRollout" /\ req'.target # "") =>
                /\ i' = i
                /\ req'.target = rolloutPreview[i + 1]
                /\ \A k \in 0..(i - 1) : C15_ClassifiedDone(k)]_vars

\* a batch-run for the third stage, after the first two were classified done
C15_Witness ==
    /\ pc = "batchRun"
    /\ i = 2
    /\ req.stage = StageName(2)
    /\ doneLog = <<0, 1>>
    /\ <<"batchRun", 0>> \in issued

-----------------------------------------------------------------------------
(* C16 *)

\* st is not done and has no FAILED task
C16_Waiting(st) ==
    /\ st # NoStage
    /\ ~AllDoneOrSkipped(st)
    /\ Positions(st.tasks, {"FAILED"}) = {}

\* C16: run is asleep only with the stage at the cursor classified not done
\* with no FAILED task, after the batch-run attempt (none to make, answered, or
\* failed on the conflict); a stage classified so leads to the batch-run
\* attempt and the sleep with the cursor unchanged, and only a batch-run that
\* failed otherwise ends the iteration without the sleep.  A fetch is issued
\* at the cursor of the previous fetch only by the end of a sleep, and the
\* sleep ends in that fetch; a stage classified done that is not the
\* target moves the cursor by one and issues the next fetch in the same step.
C16_SleepBetweenPolls ==
    /\ [](pc = "sleep" =>
            /\ C16_Waiting(stage)
            /\ stage.name = StageName(i)
            /\ IF Positions(stage.tasks, {"NOT_STARTED"}) = {}
               THEN lastResp = NoResp
               ELSE lastResp # NoResp /\ (lastResp.ok \/ C5_Conflict))
    /\ [][/\ (stage' # stage /\ C16_Waiting(stage')) =>
                /\ i' = i
                /\ IF Positions(stage'.tasks, {"NOT_STARTED"}) = {}
                   THEN pc' = "sleep"
                   ELSE pc' = "batchRun"
          /\ pc = "batchRun" =>
                /\ pc' \in {"sleep", "failed"}
                /\ pc' = "failed" => C5_OtherFailure'
          /\ (pc # "sleep" /\ pc' = "sleep") =>
                (pc = "batchRun" \/ (stage' # stage /\ C16_Waiting(stage')))
          /\ pc = "sleep" =>
                (pc' = "getRollout" /\ i' = i /\ req'.kind = "getRollout")
          /\ (pc' = "getRollout" /\ pc # "getRollout" /\ i' = i) =>
                (pc = "sleep" \/ (pc = "createRollout" /\ i = 0))
          /\ (pc' = "getRollout" /\ pc = "getRollout") => i' = i + 1
          /\ (doneLog' # doneLog /\ stage'.environment # targetStage) =>
                /\ i' = i + 1
                /\ pc' = "getRollout"
                /\ req'.kind = "getRollout"
                /\ <<"getRollout", i + 1>> \in issued']_vars

\* asleep after a swallowed conflict at the second stage, which was reached
\* without a sleep
C16_Witness ==
    /\ pc = "sleep"
    /\ i = 1
    /\ C5_Conflict
    /\ doneLog = <<0>>
    /\ issued = {<<"actuator", 0>>, <<"createRolloutPreview", 0>>,
                 <<"createRollout", 0>>, <<"getRollout", 0>>, <<"createStage", 0>>,
                 <<"getRollout", 1>>, <<"createStage", 1>>, <<"batchRun", 1>>}

-----------------------------------------------------------------------------
(* C17 *)

\* C17: the controller never has two requests in flight: while the version
\* preflight is unanswered no other request of run is pending.
C17_OneCallInFlight == ~(verPc = "inflight" /\ req # NoReq)

-----------------------------------------------------------------------------
(* C18 *)

\* C18: every batch-cancel of the listener is addressed to the stage segment
\* (stages/<digits>) of the name of the first PENDING/RUNNING task-run of the
\* listing, whatever the stages of the later ones.
C18_StageOfFirstActive ==
    \A k \in 1..Len(handlerCalls) :
        handlerCalls[k].kind = "batchCancel" =>
            /\ C8_Active # {}
            /\ handlerCalls[k].stage = StageIdOf(listed[Kth(C8_Active, 1)].name)

-----------------------------------------------------------------------------
(* C19 *)

\* C19: once the signal listener has started, the controller issues no
\* batch-run and no stage creation.
C19_QuietAfterSignal ==
    [][(sigPc # "idle" /\ req' # req) =>
          /\ req'.kind # "batchRun"
          /\ ~(req'.kind = "createRollout" /\ req'.target # "")]_vars

-----------------------------------------------------------------------------
(* C20 *)

\* C20: with the target in the preview, every request answered, no task ever
\* FAILED and every task-run executed to DONE, run eventually returns with
\* success at the target stage and stays so.
C20_EventuallyReturns ==
    <>[](/\ pc = "returned"
         /\ failure = ""
         /\ rolloutPreview[i + 1] = targetStage)

\* success at the third stage, whose two tasks the batch-run started
C20_Witness ==
    /\ pc = "returned"
    /\ i = 2
    /\ <<"batchRun", 2>> \in issued
    /\ srvTasks[3] = <<"DONE", "DONE">>
    /\ Len(srvTasks[1]) = 2

-----------------------------------------------------------------------------
(* C21 *)

\* C21: with no target, run has returned (success) only with the cursor at
\* stageCount and the stages 0..stageCount-1 classified done, each once, in
\* order; while the loop runs the cursor is below stageCount and equals the
\* number of stages classified done so far; the loop is left only to that
\* return or to a failure.
C21_ReturnsAfterEveryStage ==
    /\ [](doneLog = [n \in 1..Len(doneLog) |-> n - 1] /\ Len(doneLog) = i)
    /\ [](C14_InLoop => i < Len(rolloutPreview))
    /\ [](pc = "returned" =>
            /\ i = Len(rolloutPreview)
            /\ Len(doneLog) = Len(rolloutPreview)
            /\ failure = ""
            /\ exitCode = 0)
    /\ [][(C14_InLoop /\ ~C14_InLoop') =>
              \/ pc' = "failed"
              \/ /\ pc' = "returned"
                 /\ i' = Len(rolloutPreview)
                 /\ doneLog' = Append(doneLog, Len(rolloutPreview) - 1)]_vars

\* success after three stages, the last one created and run by the controller
C21_Witness ==
    /\ pc = "returned"
    /\ i = 3
    /\ doneLog = <<0, 1, 2>>
    /\ <<"createStage", 2>> \in issued
    /\ <<"batchRun", 2>> \in issued

-----------------------------------------------------------------------------
(* C22 *)

\* the name of a task-run is under the stage addressed by stages/<id>
C22_Under(name, stageId) == Includes(name, "/" \o stageId \o "/")

\* C22: when this controller alone triggers the tasks, every task with a
\* PENDING or RUNNING task-run is in the stage at the cursor, and every
\* task-run named by a batch-cancel of the listener is under the stage the
\* batch-cancel is addressed to.
C22_ActiveRunsAtCursor ==
    /\ \A k \in 1..Len(srvTasks) : \A j \in 1..Len(srvTasks[k]) :
          srvTasks[k][j] \in {"PENDING", "RUNNING"} => k = i + 1
    /\ \A n \in 1..Len(handlerCalls) :
          handlerCalls[n].kind = "batchCancel" =>
              \A m \in 1..Len(handlerCalls[n].names) :
                  C22_Under(handlerCalls[n].names[m], handlerCalls[n].stage)

\* the listener cancels the two task-runs of the second stage, after the
\* first stage was run to the end
C22_Witness ==
    /\ sigPc = "cancel"
    /\ i = 1
    /\ <<"batchRun", 0>> \in issued
    /\ Len(handlerCalls) = 2
    /\ handlerCalls[2].stage = "stages/2"
    /\ Len(handlerCalls[2].names) = 2
    /\ Len(listed) = 4

====
